---- MODULE Spec2Model ----
(***************************************************************************)
(* Model of the materials application (apps/materials/views.py and         *)
(* apps/materials/serializers.py): the Material, MaterialUser and          *)
(* MaterialCategory tables, the transactional create, the soft delete,     *)
(* the collection add / remove and the filtered list / search.             *)
(*                                                                         *)
(* The create handler is modelled statement by statement, since it runs a  *)
(* transaction other requests interleave with.  Every other handler is one *)
(* action.  A finished request leaves its response in resp; Deliver hands  *)
(* the response to the client before the next step is taken, so a response *)
(* is always read against the storage state it was computed from.          *)
(***************************************************************************)
EXTENDS Integers, Sequences, FiniteSets, Bags

VARIABLES Material, MaterialUser, MaterialCategory, nextId, trans, resp,
          free, reqs

vars == <<Material, MaterialUser, MaterialCategory, nextId, trans, resp, free, reqs>>

tables == <<Material, MaterialUser, MaterialCategory>>

\* The connection pool app['db']: the number of free connections, and the
\* requests that acquire connections from it.
pool == <<free, reqs>>

----------------------------------------------------------------------------
(* Bounds and input domains *)

\* Number of Material ids the storage hands out (auto-increment values).
MaxMaterials == 2

\* Size of the connection pool, and number of concurrent requests on it.
PoolSize == 3

NumRequests == PoolSize

Requests == 1 .. NumRequests

\* project.permissions.MODERATOR, the role a delete of a foreign material needs.
MODERATOR == 2

\* The MySQL error number add_material_to_user_collection tests for.
ER_DUP_ENTRY == 1062

\* request['user'].id of the authenticated users; user 2 is a moderator.
Users == {1, 2}

role(u) == IF u = 2 THEN MODERATOR ELSE MODERATOR - 1

\* Rows of the Category table (read only here).
Category == {1, 2}

MaterialIds == 1 .. MaxMaterials

\* An optional query parameter: <<>> is None, <<x>> is the value x.
NoneP == <<>>

Some(x) == <<x>>

\* The multipart bodies sent to POST /api/materials/ ("owner" is the value
\* the client supplies for the read-only owner field).
Payloads ==
  { [p EXCEPT !.owner = o] :
      p \in { [name |-> <<"a">>, author |-> <<"b">>, type |-> "book", is_open |-> TRUE,
               owner |-> 2, categories |-> <<1>>],
              [name |-> <<"b", "a">>, author |-> <<"b">>, type |-> "video",
               is_open |-> FALSE, owner |-> 1, categories |-> <<2, 1>>] },
      o \in Users }

\* Query strings of GET /api/materials/ and GET /api/materials/search/.
OwnerParams == {NoneP} \cup {Some(u) : u \in Users}

CategoryParams == {NoneP, <<2>>, <<1, 2>>}

TypeParams == {NoneP, <<"book">>}

\* The text parameter of a search, when given: the empty string, or "a".
TextParams == {Some(<<>>), Some(<<"a">>)}

SearchCategoryParams == {NoneP, <<2>>}

\* The (requester, body) pairs of the create requests.
CreateRequests ==
  {<<1, p>> : p \in Payloads} \cup
  {<<2, p>> : p \in {x \in Payloads : ~x.is_open}}

----------------------------------------------------------------------------
(* Responses *)

\* The outcome of a request: op, user and pk name the request; status is the
\* HTTP status of the response the handler returned, 0 when it raised
\* instead; raised is the class of the exception it raised and detail the
\* key or message the exception carries; exception is the "exception" entry
\* of the body of a failed create; ids are the materials of a result page
\* and data their documents.
Response(op, user, pk, status, raised, exception, detail, ids) ==
  [op |-> op, user |-> user, pk |-> pk, owner |-> NoneP, categories |-> NoneP,
   types |-> NoneP, text |-> NoneP, status |-> status, raised |-> raised,
   exception |-> exception, detail |-> detail, ids |-> ids, data |-> <<>>]

\* The outcome of a list or search request, with its query parameters.
QueryResponse(op, user, owner, categories, types, text, status, raised, detail, ids) ==
  [Response(op, user, 0, status, raised, "", detail, ids) EXCEPT
     !.owner = owner, !.categories = categories, !.types = types, !.text = text]

NoResp == Response("none", 0, 0, 0, "", "", "", {})

IdleTrans ==
  [pc |-> "idle", user |-> 0, data |-> <<>>, categories |-> <<>>, id |-> 0,
   material |-> <<>>, user_rows |-> <<>>, category_rows |-> <<>>, exception |-> ""]

----------------------------------------------------------------------------
(* Storage *)

\* The MaterialUser rows (material, user) as a bag: the number of copies of
\* each pair the table holds.
MaterialUserRows(B, m) == {r \in BagToSet(B) : r[1] = m}

DeleteMaterialUser(B, row) == [r \in (DOMAIN B) \ {row} |-> B[r]]

\* The result of INSERT INTO material_user: 0 on success, else the MySQL
\* error number of the IntegrityError (duplicate pair, or no such material).
InsertMaterialUserErrno(B, M, row) ==
  IF row[1] \notin DOMAIN M THEN 1452
  ELSE IF BagIn(row, B) THEN ER_DUP_ENTRY
  ELSE 0

\* The rows a statement of another connection waits for: those the open
\* transaction has written and not yet committed.
Locked(pk) == trans.pc # "idle" /\ trans.id = pk

RowLocked(row) == \E i \in DOMAIN trans.user_rows : trans.user_rows[i] = row

----------------------------------------------------------------------------
(* Predicates over Material rows *)

\* A Python value that is None or a SQL boolean expression.  An expression
\* is kept as the set of Material rows of table M it is true of: x AND NULL
\* is true of no row, x OR NULL of the rows x is true of.
None == [none |-> TRUE, ids |-> {}]

Expr(S) == [none |-> FALSE, ids |-> S]

\* The rows a SQL operand selects; the literal None is bound as NULL.
Rows(c) == IF c.none THEN {} ELSE c.ids

\* a & b, the left operand an expression.
And(a, b) == Expr(Rows(a) \cap Rows(b))

\* a | b, the left operand an expression.
Or(a, b) == Expr(Rows(a) \cup Rows(b))

\* (Material.c.is_open == True) & (Material.c.deleted == False)
VisibilityFloor(M) == Expr({m \in DOMAIN M : M[m].is_open /\ ~M[m].deleted})

\* The fold of Material.c.id == row.material over the rows of a junction
\* table query: None when the query has no row.
IdEquals(M, materials) ==
  IF materials = {} THEN None ELSE Expr(materials \cap DOMAIN M)

\* The materials of the MaterialCategory rows of one category.
CategoryMaterials(MC, category) ==
  {MC[i].material : i \in {j \in DOMAIN MC : MC[j].category = category}}

\* The loop over request.query.getall('category'): acc is category_queryset.
RECURSIVE CategoryQueryset(_, _, _, _)
CategoryQueryset(M, MC, categories, acc) ==
  IF categories = <<>> THEN acc
  ELSE LET materials == IdEquals(M, CategoryMaterials(MC, Head(categories)))
       IN  CategoryQueryset(M, MC, Tail(categories),
                            IF ~acc.none THEN Or(acc, materials) ELSE materials)

\* The loop over request.query.getall('type'): acc is type_queryset.
RECURSIVE TypeQueryset(_, _, _)
TypeQueryset(M, types, acc) ==
  IF types = <<>> THEN acc
  ELSE LET eq == Expr({m \in DOMAIN M : M[m].type = Head(types)})
       IN  TypeQueryset(M, Tail(types), IF ~acc.none THEN Or(acc, eq) ELSE eq)

\* A builder that joins the dimensions with | instead of &.
CombineOr(queryset, clause) ==
  IF ~queryset.none THEN Or(queryset, clause) ELSE clause

\* if queryset is not None: queryset &= clause / else: queryset = clause
Combine(queryset, clause) ==
  IF ~queryset.none THEN And(queryset, clause) ELSE clause

get_queryset_by_user(M, MU, MC, user, owner, categories, types) ==
  LET q0 == IF owner = NoneP \/ user # owner[1] THEN VisibilityFloor(M) ELSE None
      q1 == IF categories # NoneP
            THEN Combine(q0, CategoryQueryset(M, MC, categories, None))
            ELSE q0
      q2 == IF types # NoneP
            THEN Combine(q1, TypeQueryset(M, types, None))
            ELSE q1
      q3 == IF owner # NoneP
            THEN Combine(q2, IdEquals(M, {r[1] : r \in {x \in BagToSet(MU) : x[2] = owner[1]}}))
            ELSE q2
  IN  q3

\* build_query('select', queryset=queryset): without a predicate every row.
BuildSelect(M, queryset) == IF queryset.none THEN DOMAIN M ELSE queryset.ids

\* t is a substring of s: s LIKE '%t%'.
Like(s, t) == \E i \in 0 .. (Len(s) - Len(t)) : SubSeq(s, i + 1, i + Len(t)) = t

\* The text clause of search_materials.
TextQueryset(M, text) ==
  Expr({m \in DOMAIN M : Like(M[m].name, text) \/ Like(M[m].author, text)})

\* A request on the pool: its position, the materials of its result still
\* to serialize and the categories of the current material still to
\* serialize.
NewRequest == [pc |-> "new", todo |-> <<>>, cats |-> <<>>]

----------------------------------------------------------------------------
(* Serializers *)

\* CategorySerializer.to_json of the Category row with the given id: the
\* full representation of the category.
CategorySerializer_to_json(category) ==
  [id |-> category, name |-> <<"category", category>>]

\* A serializer that leaves the row's category id in place.
MaterialCategorySerializer_to_json_id(row) == [category |-> row.category]

\* MaterialCategorySerializer.to_json of one MaterialCategory row: the
\* document of the row is replaced by that of its Category.
MaterialCategorySerializer_to_json(row) ==
  LET json == [category |-> row.category]
  IN  CategorySerializer_to_json(json.category)

\* MaterialSerializer.to_json of the Material row with id m: the row's
\* fields and, as categories, the documents of the MaterialCategory rows of
\* the material, in the order of the table.
MaterialSerializer_to_json(M, MC, m) ==
  LET json == M[m]
      result == SelectSeq(MC, LAMBDA row : row.material = json.id)
  IN  [id |-> json.id, name |-> json.name, author |-> json.author,
       type |-> json.type, is_open |-> json.is_open, owner |-> json.owner,
       deleted |-> json.deleted,
       categories |-> [i \in DOMAIN result |->
                         MaterialCategorySerializer_to_json(result[i])]]

\* The categories of the MaterialCategory rows of material m, in table order.
CategoriesStored(MC, m) ==
  LET result == SelectSeq(MC, LAMBDA row : row.material = m)
  IN  [i \in DOMAIN result |-> result[i].category]

\* serializer.to_json(result) of a result page: one document per material.
Documents(M, MC, ids) == [m \in ids |-> MaterialSerializer_to_json(M, MC, m)]

----------------------------------------------------------------------------
(* State *)

Init ==
  /\ Material = <<>>
  /\ MaterialUser = EmptyBag
  /\ MaterialCategory = <<>>
  /\ nextId = 1
  /\ trans = IdleTrans
  /\ resp = NoResp
  /\ free = PoolSize
  /\ reqs = [r \in Requests |-> NewRequest]

----------------------------------------------------------------------------
(* POST /api/materials/ : MaterialsView.multipart_post *)

\* A validation that keeps the owner the client sent.
is_valid_client_owner(user, payload) ==
  [name |-> payload.name, author |-> payload.author, type |-> payload.type,
   is_open |-> payload.is_open, owner |-> payload.owner,
   categories |-> payload.categories]

\* MaterialSerializer.is_valid: the validated data, the owner set to the
\* requester whatever the client sent.
is_valid(user, payload) ==
  [name |-> payload.name, author |-> payload.author, type |-> payload.type,
   is_open |-> payload.is_open, owner |-> user, categories |-> payload.categories]

\* The Material row model.insert().values(**validated_data) writes.
MaterialRow(id, data) ==
  [id |-> id, name |-> data.name, author |-> data.author, type |-> data.type,
   is_open |-> data.is_open, owner |-> data.owner, deleted |-> FALSE]

\* A commit placed before the loop of the category links.
CommitTablesBeforeCategories(t) ==
  [Material |-> [m \in (DOMAIN Material) \cup {t.id} |->
                   IF m = t.id THEN t.material[1] ELSE Material[m]],
   MaterialUser |-> MaterialUser (+) SetToBag({t.user_rows[i] : i \in DOMAIN t.user_rows}),
   MaterialCategory |-> MaterialCategory]

\* The tables after trans.commit(): the rows written in the transaction
\* become part of the tables, all at once.
CommitTables(t) ==
  [Material |-> [m \in (DOMAIN Material) \cup {t.id} |->
                   IF m = t.id THEN t.material[1] ELSE Material[m]],
   MaterialUser |-> MaterialUser (+) SetToBag({t.user_rows[i] : i \in DOMAIN t.user_rows}),
   MaterialCategory |-> MaterialCategory \o t.category_rows]

\* A handler that ends the failed unit by a commit.
RollbackTablesCommits(t) ==
  IF t.material = <<>>
  THEN [Material |-> Material, MaterialUser |-> MaterialUser,
        MaterialCategory |-> MaterialCategory]
  ELSE CommitTables(t)

\* The tables after trans.rollback(): nothing the transaction wrote remains.
RollbackTables(t) ==
  [Material |-> Material, MaterialUser |-> MaterialUser,
   MaterialCategory |-> MaterialCategory]

\* Lines 45-80: the body is read and validated, the transaction begins.
CreateBegin(user, payload) ==
  /\ resp = NoResp
  /\ trans.pc = "idle"
  /\ nextId <= MaxMaterials
  /\ LET data == is_valid(user, payload)
     IN  trans' = [IdleTrans EXCEPT !.pc = "insert_material", !.user = user,
                                    !.data = data, !.categories = data.categories]
  /\ UNCHANGED <<Material, MaterialUser, MaterialCategory, nextId, resp>>
  /\ UNCHANGED pool

\* Lines 82-84: the Material insert; it takes the next auto-increment id.
InsertMaterial ==
  /\ resp = NoResp
  /\ trans.pc = "insert_material"
  /\ \E ok \in BOOLEAN :
       IF ok
       THEN /\ trans' = [trans EXCEPT !.pc = "insert_user", !.id = nextId,
                                      !.material = <<MaterialRow(nextId, trans.data)>>]
            /\ nextId' = nextId + 1
       ELSE /\ trans' = [trans EXCEPT !.pc = "rollback", !.exception = "OperationalError"]
            /\ UNCHANGED nextId
  /\ UNCHANGED <<Material, MaterialUser, MaterialCategory, resp>>
  /\ UNCHANGED pool

\* Lines 86-88: the owner's MaterialUser insert.
InsertMaterialUser ==
  /\ resp = NoResp
  /\ trans.pc = "insert_user"
  /\ \E ok \in BOOLEAN :
       IF ok
       THEN trans' = [trans EXCEPT !.pc = "insert_category",
                                   !.user_rows = << <<trans.id, trans.user>> >>]
       ELSE trans' = [trans EXCEPT !.pc = "rollback", !.exception = "OperationalError"]
  /\ UNCHANGED <<Material, MaterialUser, MaterialCategory, nextId, resp>>
  /\ UNCHANGED pool

\* Lines 90-93: one pass of the loop, the MaterialCategory insert of the
\* next category; it fails when the category row does not exist (any more).
InsertMaterialCategory ==
  /\ resp = NoResp
  /\ trans.pc = "insert_category"
  /\ trans.categories # <<>>
  /\ \E ok \in BOOLEAN :
       IF ok /\ Head(trans.categories) \in Category
       THEN trans' = [trans EXCEPT
                        !.categories = Tail(trans.categories),
                        !.category_rows = Append(trans.category_rows,
                            [material |-> trans.id, category |-> Head(trans.categories)])]
       ELSE trans' = [trans EXCEPT !.pc = "rollback", !.exception = "IntegrityError"]
  /\ UNCHANGED <<Material, MaterialUser, MaterialCategory, nextId, resp>>
  /\ UNCHANGED pool

\* Lines 97-104: the loop is over, the transaction commits and the new
\* material is selected and serialized into the 201 response.
Commit ==
  /\ resp = NoResp
  /\ trans.pc = "insert_category"
  /\ trans.categories = <<>>
  /\ LET t == CommitTables(trans)
     IN  /\ Material' = t.Material
         /\ MaterialUser' = t.MaterialUser
         /\ MaterialCategory' = t.MaterialCategory
  /\ resp' = [Response("create", trans.user, trans.id, 201, "", "", "", {trans.id})
                EXCEPT !.data = Documents(Material', MaterialCategory', {trans.id})]
  /\ trans' = IdleTrans
  /\ UNCHANGED nextId
  /\ UNCHANGED pool

\* An except branch that rolls back and raises the exception again.
RollbackRaises ==
  /\ resp = NoResp
  /\ trans.pc = "rollback"
  /\ UNCHANGED tables
  /\ resp' = Response("create", trans.user, trans.id, 0, trans.exception, "", "", {})
  /\ trans' = IdleTrans
  /\ UNCHANGED nextId
  /\ UNCHANGED pool

\* Lines 94-96: the except branch, the rollback and the {exception, detail}
\* answer (web.json_response without a status: 200).
Rollback ==
  /\ resp = NoResp
  /\ trans.pc = "rollback"
  /\ LET t == RollbackTables(trans)
     IN  /\ Material' = t.Material
         /\ MaterialUser' = t.MaterialUser
         /\ MaterialCategory' = t.MaterialCategory
  /\ resp' = Response("create", trans.user, trans.id, 200, "", trans.exception, "", {})
  /\ trans' = IdleTrans
  /\ UNCHANGED nextId
  /\ UNCHANGED pool

----------------------------------------------------------------------------
(* DELETE /api/materials/{pk}/ : MaterialView.delete *)

\* A permission test that joins its two conditions with "or".
MayDeleteOr(user, material) == ~(material.owner # user \/ role(user) < MODERATOR)

\* A permission test with the role comparison the wrong way round.
MayDeleteInverted(user, material) ==
  ~(material.owner # user /\ role(user) > MODERATOR)

\* Line 119: the requester may delete the material.
MayDelete(user, material) == ~(material.owner # user /\ role(user) < MODERATOR)

\* Lines 125-126: the MaterialUser row the delete removes.
DeletedLink(user, material) == <<material.id, user>>

\* A delete that flips the deleted flag instead of setting it.
DeleteToggles(user, pk) ==
  /\ resp = NoResp
  /\ IF pk \notin DOMAIN Material
     THEN /\ resp' = Response("delete", user, pk, 0, "AttributeError", "", "", {})
          /\ UNCHANGED tables
     ELSE IF ~MayDelete(user, Material[pk])
     THEN /\ resp' = Response("delete", user, pk, 0, "PermissionDenied", "", "", {})
          /\ UNCHANGED tables
     ELSE /\ Material' = [Material EXCEPT ![pk].deleted = ~@]
          /\ MaterialUser' = DeleteMaterialUser(MaterialUser, DeletedLink(user, Material[pk]))
          /\ resp' = Response("delete", user, pk, 204, "", "", "", {})
          /\ UNCHANGED MaterialCategory
  /\ UNCHANGED <<nextId, trans>>
  /\ UNCHANGED pool

Delete(user, pk) ==
  /\ resp = NoResp
  /\ IF pk \notin DOMAIN Material
     THEN \* fetchone() gives None, material.owner raises
          /\ resp' = Response("delete", user, pk, 0, "AttributeError", "", "", {})
          /\ UNCHANGED tables
     ELSE IF ~MayDelete(user, Material[pk])
     THEN /\ resp' = Response("delete", user, pk, 0, "PermissionDenied", "", "", {})
          /\ UNCHANGED tables
     ELSE /\ Material' = [Material EXCEPT ![pk].deleted = TRUE]
          /\ MaterialUser' = DeleteMaterialUser(MaterialUser, DeletedLink(user, Material[pk]))
          /\ resp' = Response("delete", user, pk, 204, "", "", "", {})
          /\ UNCHANGED MaterialCategory
  /\ UNCHANGED <<nextId, trans>>
  /\ UNCHANGED pool

----------------------------------------------------------------------------
(* POST /api/materials/{pk}/add/ and /remove/ *)

\* A handler that re-raises every IntegrityError.
AddOutcomeReraises(user, pk, errno) ==
  IF errno = 0 THEN Response("add", user, pk, 200, "", "", "", {})
  ELSE Response("add", user, pk, 0, "IntegrityError", "", "", {})

\* Lines 147-154: what the handler makes of the insert's error number.
AddOutcome(user, pk, errno) ==
  IF errno = 0 THEN Response("add", user, pk, 200, "", "", "", {})
  ELSE IF errno = ER_DUP_ENTRY
  THEN Response("add", user, pk, 0, "ValidationError", "", "Material is already added", {})
  ELSE Response("add", user, pk, 0, "IntegrityError", "", "", {})

add_material_to_user_collection(user, pk) ==
  /\ resp = NoResp
  /\ ~Locked(pk)
  /\ LET errno == InsertMaterialUserErrno(MaterialUser, Material, <<pk, user>>)
     IN  /\ MaterialUser' = IF errno = 0
                            THEN MaterialUser (+) SetToBag({<<pk, user>>})
                            ELSE MaterialUser
         /\ resp' = AddOutcome(user, pk, errno)
  /\ UNCHANGED <<Material, MaterialCategory, nextId, trans>>
  /\ UNCHANGED pool

\* A remove whose delete lacks the condition on the user.
remove_material_from_every_collection(user, pk) ==
  /\ resp = NoResp
  /\ ~RowLocked(<<pk, user>>)
  /\ MaterialUser' = [r \in {x \in DOMAIN MaterialUser : x[1] # pk} |-> MaterialUser[r]]
  /\ resp' = Response("remove", user, pk, 200, "", "", "", {})
  /\ UNCHANGED <<Material, MaterialCategory, nextId, trans>>
  /\ UNCHANGED pool

remove_material_from_user_collection(user, pk) ==
  /\ resp = NoResp
  /\ ~RowLocked(<<pk, user>>)
  /\ MaterialUser' = DeleteMaterialUser(MaterialUser, <<pk, user>>)
  /\ resp' = Response("remove", user, pk, 200, "", "", "", {})
  /\ UNCHANGED <<Material, MaterialCategory, nextId, trans>>
  /\ UNCHANGED pool

----------------------------------------------------------------------------
(* GET /api/materials/ and GET /api/materials/search/ *)

\* MaterialsView.get: the materials of the response.
ListResponse(user, owner, categories, types) ==
  LET queryset == get_queryset_by_user(Material, MaterialUser, MaterialCategory,
                                       user, owner, categories, types)
      ids == BuildSelect(Material, queryset)
  IN  [QueryResponse("list", user, owner, categories, types, NoneP, 200, "", "", ids)
         EXCEPT !.data = Documents(Material, MaterialCategory, ids)]

\* search_materials: the outcome of the request.
SearchResponse(user, owner, categories, types, text) ==
  LET queryset == get_queryset_by_user(Material, MaterialUser, MaterialCategory,
                                       user, owner, categories, types)
  IN  IF text = NoneP
      THEN QueryResponse("search", user, owner, categories, types, text, 0,
                         "ValidationError", "text", {})
      ELSE IF queryset.none
      THEN \* queryset &= ... with queryset None
           QueryResponse("search", user, owner, categories, types, text, 0,
                         "TypeError", "", {})
      ELSE LET ids == And(queryset, TextQueryset(Material, text[1])).ids
           IN  [QueryResponse("search", user, owner, categories, types, text, 200,
                              "", "", ids)
                  EXCEPT !.data = Documents(Material, MaterialCategory, ids)]

List(user, owner, categories, types) ==
  /\ resp = NoResp
  /\ resp' = ListResponse(user, owner, categories, types)
  /\ UNCHANGED <<Material, MaterialUser, MaterialCategory, nextId, trans>>
  /\ UNCHANGED pool

Search(user, owner, categories, types, text) ==
  /\ resp = NoResp
  /\ resp' = SearchResponse(user, owner, categories, types, text)
  /\ UNCHANGED <<Material, MaterialUser, MaterialCategory, nextId, trans>>
  /\ UNCHANGED pool

\* The response leaves the server.
Deliver ==
  /\ resp # NoResp
  /\ resp' = NoResp
  /\ UNCHANGED <<Material, MaterialUser, MaterialCategory, nextId, trans>>
  /\ UNCHANGED pool

----------------------------------------------------------------------------
(* Specification *)

Next ==
  \/ \E r \in CreateRequests : CreateBegin(r[1], r[2])
  \/ InsertMaterial
  \/ InsertMaterialUser
  \/ InsertMaterialCategory
  \/ Commit
  \/ Rollback
  \/ \E user \in Users, pk \in MaterialIds : Delete(user, pk)
  \/ \E user \in Users, pk \in MaterialIds : add_material_to_user_collection(user, pk)
  \/ \E user \in Users, pk \in MaterialIds : remove_material_from_user_collection(user, pk)
  \/ \E user \in Users, owner \in OwnerParams, categories \in CategoryParams,
        types \in TypeParams : List(user, owner, categories, types)
  \/ \E user \in Users, owner \in OwnerParams, categories \in SearchCategoryParams,
        types \in TypeParams, text \in TextParams :
          Search(user, owner, categories, types, text)
  \/ \E user \in Users : Search(user, NoneP, NoneP, NoneP, NoneP)
  \/ Deliver

Spec == Init /\ [][Next]_vars

----------------------------------------------------------------------------
(* Requests on the connection pool *)

\* The rows of a result in the order of their ids.
ResultRows(ids) ==
  [i \in 1 .. Cardinality(ids) |->
     CHOOSE m \in ids : Cardinality({n \in ids : n < m}) = i - 1]

\* The connections a request holds at its position: the handler's, the one
\* of MaterialSerializer.to_json and the one of
\* MaterialCategorySerializer.to_json, each inside the block of the other.
Held(r) ==
  CASE reqs[r].pc \in {"new", "done"} -> 0
    [] reqs[r].pc \in {"handler", "materials"} -> 1
    [] reqs[r].pc = "categories" -> 2
    [] reqs[r].pc = "category" -> 3

\* async with request.app['db'].acquire() as conn, of a handler: the request
\* waits until the pool has a free connection.
PoolBegin(r) ==
  /\ reqs[r].pc = "new"
  /\ free > 0
  /\ free' = free - 1
  /\ reqs' = [reqs EXCEPT ![r].pc = "handler"]
  /\ UNCHANGED <<Material, MaterialUser, MaterialCategory, nextId, trans, resp>>

\* The handler is a list or a search: its select is executed on the
\* handler's connection, the rows of the result are to be serialized.
PoolSelect(r, user, search) ==
  /\ reqs[r].pc = "handler"
  /\ LET response == IF search
                     THEN SearchResponse(user, NoneP, NoneP, NoneP, Some(<<"a">>))
                     ELSE ListResponse(user, NoneP, NoneP, NoneP)
     IN  reqs' = [reqs EXCEPT ![r].pc = "materials",
                              ![r].todo = IF response.status = 200
                                          THEN ResultRows(response.ids) ELSE <<>>]
  /\ UNCHANGED <<Material, MaterialUser, MaterialCategory, nextId, trans, resp, free>>

\* The handler is a create whose unit commits: the new material is selected
\* and is to be serialized on the handler's connection.
PoolCreate(r, user, payload) ==
  /\ reqs[r].pc = "handler"
  /\ trans.pc = "idle"
  /\ nextId <= MaxMaterials
  /\ LET data == is_valid(user, payload)
         t == CommitTables([IdleTrans EXCEPT
                !.user = user, !.data = data, !.id = nextId,
                !.material = <<MaterialRow(nextId, data)>>,
                !.user_rows = << <<nextId, user>> >>,
                !.category_rows = [i \in DOMAIN data.categories |->
                   [material |-> nextId, category |-> data.categories[i]]]])
     IN  /\ Material' = t.Material
         /\ MaterialUser' = t.MaterialUser
         /\ MaterialCategory' = t.MaterialCategory
  /\ nextId' = nextId + 1
  /\ reqs' = [reqs EXCEPT ![r].pc = "materials", ![r].todo = <<nextId>>]
  /\ UNCHANGED <<trans, resp, free>>

\* MaterialSerializer.to_json of the next material: inside the handler's
\* block it acquires a connection and selects the MaterialCategory rows.
PoolAcquireMaterial(r) ==
  /\ reqs[r].pc = "materials"
  /\ reqs[r].todo # <<>>
  /\ free > 0
  /\ free' = free - 1
  /\ reqs' = [reqs EXCEPT ![r].pc = "categories",
                          ![r].cats = CategoriesStored(MaterialCategory,
                                                      Head(reqs[r].todo))]
  /\ UNCHANGED <<Material, MaterialUser, MaterialCategory, nextId, trans, resp>>

\* MaterialCategorySerializer.to_json of the next row: inside the block of
\* MaterialSerializer.to_json it acquires a connection.
PoolAcquireCategory(r) ==
  /\ reqs[r].pc = "categories"
  /\ reqs[r].cats # <<>>
  /\ free > 0
  /\ free' = free - 1
  /\ reqs' = [reqs EXCEPT ![r].pc = "category"]
  /\ UNCHANGED <<Material, MaterialUser, MaterialCategory, nextId, trans, resp>>

\* The Category is selected and serialized, the block of
\* MaterialCategorySerializer.to_json ends and releases its connection.
PoolReleaseCategory(r) ==
  /\ reqs[r].pc = "category"
  /\ free' = free + 1
  /\ reqs' = [reqs EXCEPT ![r].pc = "categories", ![r].cats = Tail(reqs[r].cats)]
  /\ UNCHANGED <<Material, MaterialUser, MaterialCategory, nextId, trans, resp>>

\* All categories of the material are serialized, the block of
\* MaterialSerializer.to_json ends and releases its connection.
PoolReleaseMaterial(r) ==
  /\ reqs[r].pc = "categories"
  /\ reqs[r].cats = <<>>
  /\ free' = free + 1
  /\ reqs' = [reqs EXCEPT ![r].pc = "materials", ![r].todo = Tail(reqs[r].todo)]
  /\ UNCHANGED <<Material, MaterialUser, MaterialCategory, nextId, trans, resp>>

\* All materials are serialized, the handler returns its response and its
\* block releases the handler's connection.
PoolFinish(r) ==
  /\ reqs[r].pc = "materials"
  /\ reqs[r].todo = <<>>
  /\ free' = free + 1
  /\ reqs' = [reqs EXCEPT ![r].pc = "done"]
  /\ UNCHANGED <<Material, MaterialUser, MaterialCategory, nextId, trans, resp>>

PoolNext ==
  \/ \E r \in Requests : PoolBegin(r)
  \/ \E r \in Requests, user \in Users, search \in BOOLEAN : PoolSelect(r, user, search)
  \/ \E r \in Requests, c \in CreateRequests : PoolCreate(r, c[1], c[2])
  \/ \E r \in Requests : PoolAcquireMaterial(r)
  \/ \E r \in Requests : PoolAcquireCategory(r)
  \/ \E r \in Requests : PoolReleaseCategory(r)
  \/ \E r \in Requests : PoolReleaseMaterial(r)
  \/ \E r \in Requests : PoolFinish(r)

SpecPool == Init /\ [][PoolNext]_vars

----------------------------------------------------------------------------
(* Properties *)

IsQuery(r) == r.op \in {"list", "search"}

\* The materials a list or search request returns; none when it fails.
Returned(r) == IF r.status = 200 THEN r.ids ELSE {}

\* The outcome, in the current state, of the list or search request with
\* the given parameters.
QueryOutcome(op, user, owner, categories, types, text) ==
  IF op = "list" THEN ListResponse(user, owner, categories, types)
  ELSE SearchResponse(user, owner, categories, types, text)

\* The predicate of the request of response r is an expression, not None.
BuiltPredicate(r) ==
  ~get_queryset_by_user(Material, MaterialUser, MaterialCategory,
                        r.user, r.owner, r.categories, r.types).none

Range(seq) == {seq[i] : i \in DOMAIN seq}

RowsOfMaterial(M, MU, MC, id) ==
  [material |-> {id} \cap DOMAIN M, users |-> MaterialUserRows(MU, id),
   categories |-> {i \in DOMAIN MC : MC[i].material = id}]

NoRows == [material |-> {}, users |-> {}, categories |-> {}]

CreateFailed(r) == r.op = "create" /\ r.status # 201

\* C1: the step that ends a create request without a commit (any insert of
\* the unit failed) changes none of the three tables, and after it no
\* Material, MaterialUser or MaterialCategory row of the failed creation
\* exists.
C1_AtomicCreation ==
  [][CreateFailed(resp') =>
       /\ UNCHANGED tables
       /\ RowsOfMaterial(Material', MaterialUser', MaterialCategory', resp'.pk) = NoRows]_vars

\* C1 witness: a create failed at a category-link insert, after its Material
\* and MaterialUser inserts, and has answered.
C1_Witness ==
  /\ CreateFailed(resp)
  /\ resp.exception = "IntegrityError"
  /\ resp.pk \in MaterialIds

\* C2: every material a list or search returns to a requester who is not
\* its owner is open and not deleted (stated for the requests whose
\* predicate get_queryset_by_user builds from at least one clause).
C2_VisibilityFloor ==
  (IsQuery(resp) /\ resp.status = 200 /\ BuiltPredicate(resp)) =>
    \A m \in resp.ids :
      Material[m].owner # resp.user => (Material[m].is_open /\ ~Material[m].deleted)

\* C3: a list or search whose category ids all have no MaterialCategory row
\* returns no material (stated for the requests whose predicate
\* get_queryset_by_user builds from at least one clause).
C3_EmptyCategoryMatchesNothing ==
  (/\ IsQuery(resp) /\ resp.status = 200 /\ BuiltPredicate(resp)
   /\ resp.categories # NoneP
   /\ \A c \in Range(resp.categories) : CategoryMaterials(MaterialCategory, c) = {})
  => resp.ids = {}

\* The materials the request of response r returns with one dimension left out.
WithoutCategories(r) ==
  Returned(QueryOutcome(r.op, r.user, r.owner, NoneP, r.types, r.text))

WithoutTypes(r) ==
  Returned(QueryOutcome(r.op, r.user, r.owner, r.categories, NoneP, r.text))

WithoutOwner(r) ==
  Returned(QueryOutcome(r.op, r.user, NoneP, r.categories, r.types, r.text))

WithoutText(r) ==
  Returned(QueryOutcome("list", r.user, r.owner, r.categories, r.types, NoneP))

\* The category clause of the request of response r is an expression: some
\* supplied category has a MaterialCategory row.
CategoryClauseBuilt(r) ==
  ~CategoryQueryset(Material, MaterialCategory, r.categories, None).none

\* C4 as claimed: the materials a list or search returns are among those
\* the same request returns with any one of its dimensions (owner,
\* category, type, text) left out (stated for the requests whose predicate
\* get_queryset_by_user builds from at least one clause, none of their
\* category ids being without rows, the case of C3).
C4_Monotone_AnyDimension ==
  (/\ IsQuery(resp) /\ resp.status = 200 /\ BuiltPredicate(resp)
   /\ resp.categories # NoneP => CategoryClauseBuilt(resp)) =>
    /\ resp.categories # NoneP => resp.ids \subseteq WithoutCategories(resp)
    /\ resp.types # NoneP => resp.ids \subseteq WithoutTypes(resp)
    /\ resp.owner # NoneP => resp.ids \subseteq WithoutOwner(resp)
    /\ resp.op = "search" => resp.ids \subseteq WithoutText(resp)

\* C4 as amended: the materials a list or search returns are among those
\* the same request returns with its category, its type or its text
\* dimension left out, or with its owner dimension left out when that owner
\* is not the requester.
C4_Monotone ==
  (IsQuery(resp) /\ resp.status = 200) =>
    /\ resp.categories # NoneP => resp.ids \subseteq WithoutCategories(resp)
    /\ resp.types # NoneP => resp.ids \subseteq WithoutTypes(resp)
    /\ (resp.owner # NoneP /\ resp.owner # Some(resp.user)) =>
         resp.ids \subseteq WithoutOwner(resp)
    /\ resp.op = "search" => resp.ids \subseteq WithoutText(resp)

\* C4 witness: a request with a category dimension has returned some
\* materials, and fewer than it returns without that dimension.
C4_Witness ==
  /\ IsQuery(resp) /\ resp.status = 200
  /\ resp.categories # NoneP
  /\ resp.ids # {}
  /\ resp.ids # WithoutCategories(resp)

\* The set C5 names: the AND over the supplied dimensions of the OR over the
\* dimension's values, with the visibility floor unless owner is the requester.
AndOfOrs(user, owner, categories, types) ==
  {m \in DOMAIN Material :
     /\ categories # NoneP =>
          \E c \in Range(categories) : m \in CategoryMaterials(MaterialCategory, c)
     /\ types # NoneP => Material[m].type \in Range(types)
     /\ owner # NoneP => BagIn(<<m, owner[1]>>, MaterialUser)
     /\ (owner = NoneP \/ owner[1] # user) =>
          (Material[m].is_open /\ ~Material[m].deleted)}

\* C5: the materials a list returns are exactly the AND of the per-dimension
\* ORs; a search returns those of them whose name or author contains the
\* text (stated for the requests whose predicate get_queryset_by_user builds
\* from at least one clause).
C5_AndOfOrs ==
  (IsQuery(resp) /\ resp.status = 200 /\ BuiltPredicate(resp)) =>
    resp.ids =
      {m \in AndOfOrs(resp.user, resp.owner, resp.categories, resp.types) :
         resp.op = "search" =>
           (Like(Material[m].name, resp.text[1]) \/ Like(Material[m].author, resp.text[1]))}

\* C6: MaterialUser never holds a pair twice; an add request for a pair the
\* table holds ends with the 'Material is already added' ValidationError and
\* inserts nothing; an add request for a pair it does not hold, of an
\* existing material, inserts the pair once and answers 200.
C6_DuplicateAdd ==
  [][/\ \A r \in BagToSet(MaterialUser') : CopiesIn(r, MaterialUser') = 1
     /\ resp'.op = "add" =>
          LET row == <<resp'.pk, resp'.user>>
          IN  /\ BagIn(row, MaterialUser) =>
                   /\ resp'.raised = "ValidationError"
                   /\ resp'.detail = "Material is already added"
                   /\ MaterialUser' = MaterialUser
              /\ (~BagIn(row, MaterialUser) /\ resp'.pk \in DOMAIN Material) =>
                   /\ resp'.status = 200
                   /\ MaterialUser' = MaterialUser (+) SetToBag({row})]_vars

\* C6 witness: the creator of a material, whose pair the create inserted,
\* has asked to add it and got the validation error.
C6_Witness ==
  /\ resp.op = "add"
  /\ resp.raised = "ValidationError"
  /\ resp.pk \in DOMAIN Material
  /\ Material[resp.pk].owner = resp.user
  /\ BagIn(<<resp.pk, resp.user>>, MaterialUser)

\* C7: a delete request of the owner of an existing material answers 204 and
\* leaves the Material row in place with deleted = true and no MaterialUser
\* row (material, owner).
C7_SoftDeleteByOwner ==
  [][(/\ resp'.op = "delete"
      /\ resp'.pk \in DOMAIN Material
      /\ Material[resp'.pk].owner = resp'.user)
     => /\ resp'.status = 204
        /\ resp'.pk \in DOMAIN Material'
        /\ Material'[resp'.pk].deleted
        /\ ~BagIn(<<resp'.pk, resp'.user>>, MaterialUser')]_vars

\* C7 witness: an owner without the moderator role has deleted their material.
C7_Witness ==
  /\ resp.op = "delete"
  /\ resp.status = 204
  /\ Material[resp.pk].owner = resp.user
  /\ role(resp.user) < MODERATOR
  /\ Material[resp.pk].deleted

\* C8: a successful delete removes the MaterialUser row of the material's
\* owner and leaves every other MaterialUser row unchanged.
C8_DeleteRemovesOwnersLink ==
  [][(resp'.op = "delete" /\ resp'.status = 204) =>
       MaterialUser' =
         DeleteMaterialUser(MaterialUser, <<resp'.pk, Material[resp'.pk].owner>>)]_vars

\* C9: no list or search returns a material with deleted = true (stated for
\* the requests whose predicate get_queryset_by_user builds from at least
\* one clause).
C9_DeletedNeverListed ==
  (IsQuery(resp) /\ resp.status = 200 /\ BuiltPredicate(resp)) =>
    \A m \in resp.ids : ~Material[m].deleted

\* C10: a search whose text is absent or the empty string does not answer
\* with a result page.
C10_SearchRequiresText ==
  (resp.op = "search" /\ resp.text \in {NoneP, Some(<<>>)}) => resp.status # 200

\* C11: a delete request for an existing material by a user who is not its
\* owner and whose role is below MODERATOR raises PermissionDenied and
\* changes no Material, MaterialUser or MaterialCategory row.
C11_DeletePermission ==
  [][(/\ resp'.op = "delete"
      /\ resp'.pk \in DOMAIN Material
      /\ Material[resp'.pk].owner # resp'.user
      /\ role(resp'.user) < MODERATOR)
     => /\ resp'.raised = "PermissionDenied"
        /\ resp'.status = 0
        /\ UNCHANGED tables]_vars

\* C11 witness: a user below MODERATOR has asked to delete a material of
\* another user that is not deleted and is in the owner's collection.
C11_Witness ==
  /\ resp.op = "delete"
  /\ resp.raised = "PermissionDenied"
  /\ Material[resp.pk].owner # resp.user
  /\ ~Material[resp.pk].deleted
  /\ BagIn(<<resp.pk, Material[resp.pk].owner>>, MaterialUser)

\* The category ids sent in the body that created the Material row.
CategoriesGiven(row) == (CHOOSE p \in Payloads : p.name = row.name).categories

\* C12: every document of a material in a create, list or search response
\* holds, as categories, the full representations of the category ids given
\* when the material was created, one per id and in their order.
C12_CategoryRoundTrip ==
  (resp.op \in {"create", "list", "search"} /\ resp.status \in {200, 201}) =>
    /\ DOMAIN resp.data = resp.ids
    /\ \A m \in resp.ids :
         LET given == CategoriesGiven(Material[m])
         IN  resp.data[m].categories =
               [i \in DOMAIN given |-> [id |-> given[i], name |-> <<"category", given[i]>>]]

\* C12 witness: the 201 response of a create with categories [2, 1] holds
\* the representations of category 2 and category 1, in that order, and a
\* later list returns the material of an earlier create as well.
C12_Witness ==
  /\ resp.op = "create" /\ resp.status = 201
  /\ Len(resp.data[resp.pk].categories) = 2
  /\ resp.data[resp.pk].categories[1].id = 2
  /\ resp.data[resp.pk].categories[2].id = 1
  /\ Len(MaterialCategory) > 2

\* C13: the Material row a successful create stores has the requester as
\* owner, and the create leaves exactly one MaterialUser row of the new
\* material, (material, requester); the validated data of two bodies that
\* differ only in the owner they supply are the same.
C13_ServerAuthoritativeOwner ==
  [][(resp'.op = "create" /\ resp'.status = 201) =>
       /\ resp'.pk \notin DOMAIN Material
       /\ Material'[resp'.pk].owner = resp'.user
       /\ MaterialUserRows(MaterialUser', resp'.pk) = {<<resp'.pk, resp'.user>>}
       /\ CopiesIn(<<resp'.pk, resp'.user>>, MaterialUser') = 1
       /\ \A p \in Payloads, o \in Users :
            (is_valid(resp'.user, p) = trans.data) =>
              is_valid(resp'.user, [p EXCEPT !.owner = o]) = trans.data]_vars

\* C13 witness: a create has answered 201 whose body, for one of the bodies
\* that validate to the stored row, names another user as owner.
C13_Witness ==
  /\ resp.op = "create" /\ resp.status = 201
  /\ \E p \in Payloads :
       /\ p.owner # resp.user
       /\ <<resp.user, p>> \in CreateRequests
       /\ MaterialRow(resp.pk, is_valid(resp.user, p)) = Material[resp.pk]

\* C14: whatever the interleaving of a create unit with the requests of
\* other users, (a) every material a list or search returns is a committed
\* row, not the row of the unit in flight, and has all its MaterialCategory
\* rows; (b) an add or a delete succeeds only on a committed material;
\* (c) a Material row appears together with its owner's MaterialUser row and
\* all its MaterialCategory rows, in one step; (d) an id without a committed
\* Material row (unit in flight or aborted) has no row in any table.
C14_NoIntermediateState ==
  [][/\ (resp'.op \in {"list", "search"} /\ resp'.status = 200) =>
          \A m \in resp'.ids :
            /\ m \in DOMAIN Material
            /\ ~Locked(m)
            /\ CategoriesStored(MaterialCategory, m) = CategoriesGiven(Material[m])
            /\ resp'.data[m].id = m
     /\ (resp'.op \in {"add", "delete"} /\ resp'.status \in {200, 204}) =>
          (resp'.pk \in DOMAIN Material /\ ~Locked(resp'.pk))
     /\ \A m \in (DOMAIN Material') \ (DOMAIN Material) :
          /\ BagIn(<<m, Material'[m].owner>>, MaterialUser')
          /\ CategoriesStored(MaterialCategory', m) = CategoriesGiven(Material'[m])
     /\ \A m \in MaterialIds \ (DOMAIN Material') :
          RowsOfMaterial(Material', MaterialUser', MaterialCategory', m) = NoRows]_vars

\* C14 witness: while the unit of one user has inserted its Material row and
\* not yet committed, another user's list has returned the committed
\* materials.
C14_Witness ==
  /\ trans.pc \in {"insert_user", "insert_category"}
  /\ trans.id # 0
  /\ resp.op = "list" /\ resp.status = 200
  /\ resp.user # trans.user
  /\ resp.ids # {}
  /\ trans.id \notin resp.ids

\* Every insert of the unit has succeeded: the Material row, the owner's
\* MaterialUser row and one MaterialCategory row per given category.
AllInserted(t) ==
  /\ t.material # <<>>
  /\ Len(t.user_rows) = 1
  /\ Len(t.category_rows) = Len(t.data.categories)

\* C16: a create that has begun its transaction ends it in one step, by a
\* commit if and only if all its inserts succeeded and by a rollback
\* otherwise; the commit answers 201 with the serialized material, the
\* rollback changes no table and answers (without raising) with the
\* exception; a create answers only at the end of its unit, and after the
\* end no step of the unit remains until a new create begins.
C16_WriteUnitOutcome ==
  [][/\ (trans.pc # "idle" /\ trans'.pc = "idle") =>
          /\ resp'.op = "create" /\ resp'.user = trans.user
          /\ trans' = IdleTrans
          /\ IF AllInserted(trans)
             THEN /\ trans.exception = ""
                  /\ resp'.status = 201 /\ resp'.raised = ""
                  /\ resp'.pk \in DOMAIN Material'
                  /\ resp'.data = Documents(Material', MaterialCategory', {trans.id})
                  /\ Material'[trans.id] = trans.material[1]
             ELSE /\ trans.exception # ""
                  /\ trans.pc = "rollback"
                  /\ UNCHANGED tables
                  /\ resp'.status = 200 /\ resp'.raised = ""
                  /\ resp'.exception = trans.exception
                  /\ resp'.data = <<>>
     /\ (resp'.op = "create" /\ resp' # resp) =>
          (trans.pc # "idle" /\ trans'.pc = "idle")
     /\ (trans.pc = "rollback") => trans'.pc \in {"rollback", "idle"}
     /\ (trans.pc = "idle" /\ trans'.pc # "idle") =>
          (trans'.pc = "insert_material" /\ UNCHANGED tables)]_vars

\* C16 witness: a unit whose Material and MaterialUser inserts succeeded and
\* whose second category insert failed has rolled back and answered 200 with
\* the exception.
C16_Witness ==
  /\ resp.op = "create" /\ resp.status = 200 /\ resp.raised = ""
  /\ resp.exception = "IntegrityError"
  /\ resp.pk # 0
  /\ resp.pk \notin DOMAIN Material
  /\ trans.pc = "idle"

\* C17: no step removes a Material row or a MaterialCategory row or resets a
\* deleted flag, and every MaterialUser and MaterialCategory row references
\* a Material row that exists.
C17_RowsNeverLost ==
  [][/\ DOMAIN Material \subseteq DOMAIN Material'
     /\ \A m \in DOMAIN Material :
          /\ Material[m].deleted => Material'[m].deleted
          /\ [Material'[m] EXCEPT !.deleted = FALSE] = [Material[m] EXCEPT !.deleted = FALSE]
     /\ SubSeq(MaterialCategory', 1, Len(MaterialCategory)) = MaterialCategory
     /\ \A r \in DOMAIN MaterialUser' : r[1] \in DOMAIN Material'
     /\ \A i \in DOMAIN MaterialCategory' :
          MaterialCategory'[i].material \in DOMAIN Material']_vars

\* C17 witness: a delete has been answered 204, the material is marked
\* deleted, and its MaterialCategory rows and another user's link to it are
\* still stored.
C17_Witness ==
  /\ resp.op = "delete" /\ resp.status = 204
  /\ Material[resp.pk].deleted
  /\ CategoriesStored(MaterialCategory, resp.pk) = CategoriesGiven(Material[resp.pk])
  /\ \E u \in Users : u # Material[resp.pk].owner /\ BagIn(<<resp.pk, u>>, MaterialUser)

\* C18: a remove by user U on material M answers 200, leaves no (M, U)
\* MaterialUser row, changes no other MaterialUser row and no Material or
\* MaterialCategory row; when the row was already absent nothing changes,
\* and a repetition leaves the state it produced.
C18_RemoveFrame ==
  [][resp'.op = "remove" =>
       LET row == <<resp'.pk, resp'.user>>
       IN  /\ resp'.status = 200 /\ resp'.raised = ""
           /\ \A r \in (DOMAIN MaterialUser) \cup (DOMAIN MaterialUser') :
                CopiesIn(r, MaterialUser') =
                  IF r = row THEN 0 ELSE CopiesIn(r, MaterialUser)
           /\ UNCHANGED <<Material, MaterialCategory>>
           /\ ~BagIn(row, MaterialUser) => UNCHANGED MaterialUser
           /\ DeleteMaterialUser(MaterialUser', row) = MaterialUser']_vars

\* C18 witness: a remove has been answered for a material the requester has
\* no link to, while another user's link to that material is stored.
C18_Witness ==
  /\ resp.op = "remove" /\ resp.status = 200
  /\ resp.pk \in DOMAIN Material
  /\ ~BagIn(<<resp.pk, resp.user>>, MaterialUser)
  /\ \E u \in Users : u # resp.user /\ BagIn(<<resp.pk, u>>, MaterialUser)

\* C15: whenever requests hold connections of the pool and have not
\* completed, one of the requests can take its next step: no set of requests
\* waits on connections that only the waiting requests hold.
C15_PoolProgress ==
  (\E r1, r2 \in Requests : r1 # r2 /\ Held(r1) > 0 /\ Held(r2) > 0) =>
    ENABLED PoolNext

====
